---------------------------- MODULE Spec2Model ----------------------------
(***************************************************************************)
(* Model of src/orkut_scraper.py: the OrkutCommunityScraper crawl          *)
(* (landing page -> index letter links -> paginated letter pages ->        *)
(* merged, deduplicated names -> CSV).                                      *)
(*                                                                         *)
(* Text is modelled as sequences of code points, so that stripping,        *)
(* lower-casing, substring tests and sorting are computed, not assumed.    *)
(* A parsed page (BeautifulSoup) is the sequence of its elements in        *)
(* document order; each element carries its tag, classes, attributes,      *)
(* text nodes and whether it lies inside the first listCommunityContainer  *)
(* / indexLettersContainer div of the page.                                *)
(* Python lists whose element order is never read (they are only extended, *)
(* turned into a set, measured or sorted) are modelled as bags.            *)
(***************************************************************************)
EXTENDS Integers, Sequences, FiniteSets, Bags, TLC

----------------------------------------------------------------------------
(* Program constants *)

\* if page_num > 50
PageLimit == 50
\* len(name) > 2
MinLen == 2
\* time.sleep(1) between the pages of one letter
PageDelay == 1
\* time.sleep(2) between letters
LetterDelay == 2

(* Bounds of the model *)

\* number of elements of a generated landing page
MaxElems == 2
\* number of pages of the long synthetic pagination chain
ChainLen == 60
\* number of scrape_communities calls made on one scraper object
MaxCalls == 2

----------------------------------------------------------------------------
(* Text: sequences of code points *)

\* code points below 256 for which str.isspace() holds; str.strip() and
\* get_text(strip=True) remove them from both ends
Whitespace == {9, 10, 11, 12, 13, 28, 29, 30, 31, 32, 133, 160}

RECURSIVE LStrip(_)
LStrip(s) ==
    IF s = <<>> THEN <<>>
    ELSE IF Head(s) \in Whitespace THEN LStrip(Tail(s)) ELSE s

RECURSIVE RStrip(_)
RStrip(s) ==
    IF s = <<>> THEN <<>>
    ELSE IF s[Len(s)] \in Whitespace THEN RStrip(SubSeq(s, 1, Len(s) - 1)) ELSE s

\* str.strip()
Strip(s) == RStrip(LStrip(s))

\* str.lower() on the ASCII range
Lower(s) == [k \in 1..Len(s) |-> IF s[k] \in 65..90 THEN s[k] + 32 ELSE s[k]]

\* sub in s
Contains(s, sub) ==
    \E k \in 0..(Len(s) - Len(sub)) : SubSeq(s, k + 1, k + Len(sub)) = sub

\* str(n) for n >= 0
RECURSIVE Digits(_)
Digits(n) == IF n < 10 THEN <<48 + n>> ELSE Digits(n \div 10) \o <<48 + (n % 10)>>

\* Python compares str values code point by code point
RECURSIVE LexLess(_, _)
LexLess(a, b) ==
    IF b = <<>> THEN FALSE
    ELSE IF a = <<>> THEN TRUE
    ELSE IF Head(a) # Head(b) THEN Head(a) < Head(b)
    ELSE LexLess(Tail(a), Tail(b))

Range(s) == {s[k] : k \in 1..Len(s)}

RECURSIVE Concat(_)
Concat(ss) == IF ss = <<>> THEN <<>> ELSE Head(ss) \o Concat(Tail(ss))

RECURSIVE SelectSeqBy(_, _)
\* the elements of sequence s whose index satisfies keep, in order
SelectSeqBy(s, keep) ==
    IF s = <<>> THEN <<>>
    ELSE LET rest == SelectSeqBy(SubSeq(s, 1, Len(s) - 1), keep)
         IN IF keep[Len(s)] THEN Append(rest, s[Len(s)]) ELSE rest

\* String literals
BaseUrl == <<104, 116, 116, 112, 58, 47, 47, 111, 47>>  \* "http://o/"
SchemeSep == <<58, 47, 47>>  \* "://"
Slash == 47
Header == <<67, 111, 109, 109, 117, 110, 105, 116, 121, 32, 78, 97, 109, 101>>  \* "Community Name"
KwNext == <<110, 101, 120, 116>>  \* "next"
KwCommunityUpper == <<67, 111, 109, 109, 117, 110, 105, 116, 121>>  \* "Community"
KwCommunityLower == <<99, 111, 109, 109, 117, 110, 105, 116, 121>>  \* "community"
NavNext == <<110, 101, 120, 116, 32, 62>>  \* "next >"
NavPrevious == <<60, 32, 112, 114, 101, 118, 105, 111, 117, 115>>  \* "< previous"
NavFirst == <<102, 105, 114, 115, 116>>  \* "first"
NavLast == <<108, 97, 115, 116>>  \* "last"
\* ['next >', '< previous', 'first', 'last']
NavLabels == {NavNext, NavPrevious, NavFirst, NavLast}

----------------------------------------------------------------------------
(* urllib.parse.urljoin, for the href forms that occur in the model:       *)
(* absolute ("scheme://..."), root-relative ("/...") and path-relative.    *)

RECURSIVE FirstSlashFrom(_, _)
\* index of the first "/" of s at or after position k (Len(s)+1 if none)
FirstSlashFrom(s, k) ==
    IF k > Len(s) THEN Len(s) + 1
    ELSE IF s[k] = Slash THEN k ELSE FirstSlashFrom(s, k + 1)

RECURSIVE SchemeEnd(_, _)
\* index of the first "://" of s at or after position k (0 if none)
SchemeEnd(s, k) ==
    IF k + 2 > Len(s) THEN 0
    ELSE IF SubSeq(s, k, k + 2) = SchemeSep THEN k ELSE SchemeEnd(s, k + 1)

IsAbsolute(href) == SchemeEnd(href, 1) > 0 /\ FirstSlashFrom(href, 1) > SchemeEnd(href, 1)

\* scheme and network location of an absolute URL
Origin(url) == SubSeq(url, 1, FirstSlashFrom(url, SchemeEnd(url, 1) + 3) - 1)

RECURSIVE LastSlash(_, _)
LastSlash(s, k) == IF k = 0 THEN 0 ELSE IF s[k] = Slash THEN k ELSE LastSlash(s, k - 1)

urljoin(base, href) ==
    IF IsAbsolute(href) THEN href
    ELSE IF Head(href) = Slash THEN Origin(base) \o href
    ELSE SubSeq(base, 1, LastSlash(base, Len(base))) \o href

----------------------------------------------------------------------------
(* Parsed pages *)

None == <<>>

\* An element of a parsed page.  href and title are <<>> when the attribute
\* is missing and <<value>> when it is present.
Elem(tag, class, href, title, text, inList, inIndex) ==
    [tag |-> tag, class |-> class, href |-> href, title |-> title,
     text |-> text, inList |-> inList, inIndex |-> inIndex]

\* A parsed page: hasList / hasIndex say whether a div of class
\* listCommunityContainer / indexLettersContainer exists
Page(elems, hasList, hasIndex) ==
    [elems |-> elems, hasList |-> hasList, hasIndex |-> hasIndex]

\* element.get_text(strip=True): every text node stripped, empty ones
\* dropped, the rest joined
GetTextStrip(e) ==
    Concat([k \in 1..Len(e.text) |-> Strip(e.text[k])])

\* element.get_text()
GetText(e) == Concat(e.text)

\* element.get(attr): None when missing
GetAttr(a) == IF a = <<>> THEN None ELSE a[1]

\* the members of sequence s that lie in the set wanted, in order
Filter(s, wanted) == SelectSeqBy(s, [k \in 1..Len(s) |-> s[k] \in wanted])

\* the anchors of page p, as find_all('a') and select('a...') see them
Anchors(p) == {e \in Range(p.elems) : e.tag = "a"}

\* if name and len(name) > 2
LongEnough(name) == name # <<>> /\ Len(name) > MinLen

\* name = link.get_text(strip=True), for every element of a sequence
TextsOf(elems) == [k \in 1..Len(elems) |-> GetTextStrip(elems[k])]

\* the names of a sequence of elements that are long enough
NamesOf(elems) ==
    LET names == TextsOf(elems)
    IN Filter(names, {n \in Range(names) : LongEnough(n)})

----------------------------------------------------------------------------
(* extract_communities_from_page *)

\* soup.find_all('a', class_='typoSectionTitleFont')
TitleLinks(p) ==
    Filter(p.elems, {e \in Anchors(p) : "typoSectionTitleFont" \in e.class})

\* the names appended by the first loop
PrimaryNames(p) == NamesOf(TitleLinks(p))

\* community_container.find_all('a'), minus the pagination links
ContainerLinks(p) ==
    Filter(p.elems, {e \in Anchors(p) :
                        e.inList /\ "paginationSeparator" \notin e.class})

\* the names appended by the container fallback
ContainerNames(p) ==
    IF p.hasList
    THEN LET names == NamesOf(ContainerLinks(p))
         IN Filter(names, Range(names) \ NavLabels)
    ELSE <<>>

\* a[href*="kw"]
HrefHas(p, kw) == {e \in Anchors(p) : e.href # <<>> /\ Contains(e.href[1], kw)}

\* a[title*="kw"]
TitleHas(p, kw) == {e \in Anchors(p) : e.title # <<>> /\ Contains(e.title[1], kw)}

\* .cls
HasClass(p, cls) == {e \in Range(p.elems) : cls \in e.class}

\* soup.select(selector) for the six selectors, in the order of the list
SelectorMatches(p) ==
    << Filter(p.elems, HrefHas(p, KwCommunityUpper)),
       Filter(p.elems, HrefHas(p, KwCommunityLower)),
       Filter(p.elems, HasClass(p, "community-name")),
       Filter(p.elems, HasClass(p, "community-title")),
       Filter(p.elems, TitleHas(p, KwCommunityLower)),
       Filter(p.elems, TitleHas(p, KwCommunityUpper)) >>

\* the names appended by the selector fallback
HeuristicNames(p) ==
    LET m == SelectorMatches(p)
    IN Concat([k \in 1..Len(m) |-> NamesOf(m[k])])

\* variant: the container fallback runs whatever the first loop found
TryContainer_Always(communities, p) == communities \o ContainerNames(p)

\* if not communities: (container fallback)
TryContainer(communities, p) ==
    IF communities = <<>> THEN communities \o ContainerNames(p) ELSE communities

\* if not communities: (selector fallback)
TryHeuristic(communities, p) ==
    IF communities = <<>> THEN communities \o HeuristicNames(p) ELSE communities

\* list(set(communities)): a list without repetitions
ListSet(names) == SetToBag(Range(names))

extract_communities_from_page(soup) ==
    LET c1 == <<>> \o PrimaryNames(soup)
        c2 == TryContainer(c1, soup)
        c3 == TryHeuristic(c2, soup)
    IN ListSet(c3)

----------------------------------------------------------------------------
(* find_index_letter_links, find_pagination_links *)

\* variant: every anchor of the container that has an href counts
IndexLinks_AnyAnchor(p) ==
    Filter(p.elems, {e \in Anchors(p) : e.inIndex /\ GetAttr(e.href) # None})

\* index_container.find_all('a', class_='indexLetters') with a usable href
IndexLinks(p) ==
    Filter(p.elems, {e \in Anchors(p) :
                        /\ e.inIndex
                        /\ "indexLetters" \in e.class
                        /\ GetAttr(e.href) # None})

find_index_letter_links(base_url, soup) ==
    IF soup.hasIndex
    THEN LET found == IndexLinks(soup)
         IN [k \in 1..Len(found) |-> urljoin(base_url, found[k].href[1])]
    ELSE <<>>

\* a pagination link whose text contains "next" and that has a usable href
NextLinks(p) ==
    Filter(p.elems, {e \in Anchors(p) :
                        /\ "paginationSeparator" \in e.class
                        /\ GetAttr(e.href) # None
                        /\ Contains(Lower(GetText(e)), KwNext)})

find_pagination_links(base_url, soup) ==
    LET found == NextLinks(soup)
    IN [k \in 1..Len(found) |-> urljoin(base_url, found[k].href[1])]

\* next_links[0] if next_links else None
NextUrl(base_url, soup) ==
    LET next_links == find_pagination_links(base_url, soup)
    IN IF next_links # <<>> THEN next_links[1] ELSE None

----------------------------------------------------------------------------
(* Lists of names *)

\* list.extend
Extend(list, more) == list (+) more

\* [name for name in list if len(name.strip()) > 2]
DropShort(list) ==
    LET keep == {n \in DOMAIN list : Len(Strip(n)) > MinLen}
    IN [n \in keep |-> list[n]]

\* variant: the list(set(...)) line is missing
DedupAndClean_KeepsDuplicates(list) == DropShort(list)

\* variant: the clean-up also lower-cases the names
DedupAndClean_Lowercases(list) ==
    SetToBag({Lower(n) : n \in DOMAIN DropShort(list)})

\* self.communities = list(set(...)); then the length filter
DedupAndClean(list) == DropShort(SetToBag(BagToSet(list)))

RECURSIVE Repeat(_, _)
Repeat(x, n) == IF n = 0 THEN <<>> ELSE <<x>> \o Repeat(x, n - 1)

RECURSIVE Sorted_Descending(_)
\* variant: sorted(list, reverse=True)
Sorted_Descending(list) ==
    IF DOMAIN list = {} THEN <<>>
    ELSE LET greatest == CHOOSE x \in DOMAIN list :
                            \A y \in DOMAIN list : x = y \/ LexLess(y, x)
             rest == [n \in DOMAIN list \ {greatest} |-> list[n]]
         IN Repeat(greatest, list[greatest]) \o Sorted_Descending(rest)

RECURSIVE Sorted(_)
\* sorted(list)
Sorted(list) ==
    IF DOMAIN list = {} THEN <<>>
    ELSE LET least == CHOOSE x \in DOMAIN list :
                         \A y \in DOMAIN list : x = y \/ LexLess(x, y)
             rest == [n \in DOMAIN list \ {least} |-> list[n]]
         IN Repeat(least, list[least]) \o Sorted(rest)

\* the rows written by save_to_csv
CsvRows(list) == <<Header>> \o Sorted(list)

----------------------------------------------------------------------------
(* Archived sites: the pages the crawl may meet, by absolute URL *)

AlphaClub == <<65, 108, 112, 104, 97, 32, 67, 108, 117, 98>>  \* 'Alpha Club'
AntsUnited == <<65, 110, 116, 115, 32, 85, 110, 105, 116, 101, 100>>  \* 'Ants United'
ArchiveFans == <<65, 114, 99, 104, 105, 118, 101, 32, 70, 97, 110, 115>>  \* 'Archive Fans'
BetaGroup == <<66, 101, 116, 97, 32, 71, 114, 111, 117, 112>>  \* 'Beta Group'
PaddedBetaGroup == <<32, 66, 101, 116, 97, 32, 71, 114, 111, 117, 112, 10>>  \* ' Beta Group\n'
Club == <<67, 108, 117, 98>>  \* 'Club'
HrefLA == <<47, 108, 45, 97, 46, 104, 116, 109, 108>>  \* '/l-a.html'
HrefLA2 == <<47, 108, 45, 97, 46, 104, 116, 109, 108, 63, 112, 97, 103, 101, 61, 50>>  \* '/l-a.html?page=2'
HrefLB == <<47, 108, 45, 98, 46, 104, 116, 109, 108>>  \* '/l-b.html'
HrefLZ == <<47, 108, 45, 122, 46, 104, 116, 109, 108>>  \* '/l-z.html'
RelHrefLZ == <<108, 45, 122, 46, 104, 116, 109, 108>>  \* 'l-z.html'
HrefChain == <<47, 99>>  \* '/c'
HrefGone == <<47, 103, 111, 110, 101>>  \* '/gone'
HrefCommunity == <<47, 67, 111, 109, 109, 117, 110, 105, 116, 121, 49>>  \* '/Community1'
TitleCommunity == <<97, 32, 99, 111, 109, 109, 117, 110, 105, 116, 121>>  \* 'a community'
TxtNextCap == <<78, 101, 120, 116, 32, 62>>  \* 'Next >'
TxtA == <<65>>  \* 'A'
TxtB == <<66>>  \* 'B'
TxtZ == <<90>>  \* 'Z'
TxtPadShort == <<32, 97, 98, 32>>  \* ' ab '
TxtPadGam == <<32, 71, 97, 109, 32>>  \* ' Gam '
TxtMa == <<109, 97, 9>>  \* 'ma\t'
Gamma == <<71, 97, 109, 109, 97>>  \* 'Gamma'
Delta == <<68, 101, 108, 116, 97>>  \* 'Delta'

NoAttr == <<>>

\* <a class="typoSectionTitleFont">name</a>
TitleLink(name) ==
    Elem("a", {"typoSectionTitleFont"}, NoAttr, NoAttr, <<name>>, FALSE, FALSE)

\* <a class="paginationSeparator" href=...>label</a>
PagerLink(href, label) ==
    Elem("a", {"paginationSeparator"}, <<href>>, NoAttr, <<label>>, FALSE, FALSE)

\* <a class="indexLetters" href=...>letter</a> inside the index container
LetterLink(href, letter) ==
    Elem("a", {"indexLetters"}, <<href>>, NoAttr, <<letter>>, FALSE, TRUE)

\* a landing page whose index lists the given hrefs
IndexPage(hrefs) ==
    Page([k \in 1..Len(hrefs) |-> LetterLink(hrefs[k], TxtA)], FALSE, TRUE)

PageLA ==
    Page(<<TitleLink(AlphaClub), TitleLink(AntsUnited),
           PagerLink(HrefLA2, NavNext)>>, FALSE, FALSE)

PageLA2 ==
    Page(<<PagerLink(HrefLA, NavPrevious), TitleLink(AntsUnited),
           TitleLink(ArchiveFans)>>, FALSE, FALSE)

\* a listing page of the container layout, without a next link
PageLB ==
    Page(<<Elem("a", {}, <<HrefLB>>, NoAttr, <<PaddedBetaGroup>>, TRUE, FALSE),
           Elem("a", {}, <<HrefLA>>, NoAttr, <<NavFirst>>, TRUE, FALSE)>>,
         TRUE, FALSE)

\* a listing page whose next link leads back to the page itself
PageLZ ==
    Page(<<TitleLink(Gamma), TitleLink(Gamma), TitleLink(Delta),
           PagerLink(RelHrefLZ, TxtNextCap)>>, FALSE, FALSE)

ChainHref(n) == HrefChain \o Digits(n)

\* page n of the synthetic chain: every page advertises a next link
ChainPage(n) ==
    Page(<<TitleLink(Club \o Digits(n % 3)),
           PagerLink(ChainHref(n + 1), TxtNextCap)>>, FALSE, FALSE)

ListingPages ==
    (urljoin(BaseUrl, HrefLA) :> PageLA) @@ (urljoin(BaseUrl, HrefLA2) :> PageLA2)
    @@ (urljoin(BaseUrl, HrefLB) :> PageLB) @@ (urljoin(BaseUrl, HrefLZ) :> PageLZ)

\* the end-to-end example: two letters, the first with two pages
E2ESite == (BaseUrl :> IndexPage(<<HrefLA, HrefLB>>)) @@ ListingPages

\* a letter with a chain of ChainLen pages, followed by a second letter
ChainSite ==
    (BaseUrl :> IndexPage(<<ChainHref(1), HrefLB>>))
    @@ [u \in {urljoin(BaseUrl, ChainHref(n)) : n \in 1..ChainLen} |->
          ChainPage(CHOOSE n \in 1..ChainLen : urljoin(BaseUrl, ChainHref(n)) = u)]
    @@ ListingPages

HrefExact == <<47, 100>>  \* '/d'

ExactHref(n) == HrefExact \o Digits(n)

\* page n of a chain of exactly PageLimit pages: the last has no next link
ExactPage(n) ==
    IF n < PageLimit
    THEN Page(<<TitleLink(Club \o Digits(n % 3)),
                PagerLink(ExactHref(n + 1), TxtNextCap)>>, FALSE, FALSE)
    ELSE Page(<<TitleLink(Club \o Digits(n % 3)),
                PagerLink(ExactHref(n - 1), NavPrevious)>>, FALSE, FALSE)

\* a single letter whose chain ends by itself on page PageLimit
ExactSite ==
    (BaseUrl :> IndexPage(<<ExactHref(1)>>))
    @@ [u \in {urljoin(BaseUrl, ExactHref(n)) : n \in 1..PageLimit} |->
          ExactPage(CHOOSE n \in 1..PageLimit : urljoin(BaseUrl, ExactHref(n)) = u)]

\* a letter whose pagination is a cycle, followed by a second letter
LoopSite == (BaseUrl :> IndexPage(<<HrefLZ, HrefLB>>)) @@ ListingPages

\* the elements a generated landing page is built from
ElemKinds ==
    { TitleLink(AlphaClub),
      TitleLink(TxtPadShort),
      Elem("a", {}, <<HrefCommunity>>, NoAttr, <<TxtPadGam, TxtMa>>, TRUE, FALSE),
      Elem("a", {"paginationSeparator"}, <<HrefLA2>>, NoAttr, <<NavNext>>, TRUE, FALSE),
      Elem("a", {}, NoAttr, <<TitleCommunity>>, <<NavLast>>, TRUE, FALSE),
      Elem("span", {"community-name"}, NoAttr, NoAttr, <<Delta>>, FALSE, FALSE),
      LetterLink(HrefLA, TxtA),
      LetterLink(HrefGone, TxtB),
      Elem("a", {}, <<HrefLB>>, NoAttr, <<TxtB>>, FALSE, TRUE),
      Elem("a", {"indexLetters"}, NoAttr, NoAttr, <<TxtZ>>, FALSE, TRUE) }

RECURSIVE SeqsUpTo(_, _)
\* the sequences over S of length at most n
SeqsUpTo(S, n) ==
    IF n = 0 THEN {<<>>}
    ELSE LET shorter == SeqsUpTo(S, n - 1)
         IN shorter \cup {Append(q, x) : q \in shorter, x \in S}

\* landing pages of at most MaxElems elements; a container that holds an
\* element exists, an empty one may exist
GeneratedPages ==
    { pg \in [elems : SeqsUpTo(ElemKinds, MaxElems),
              hasList : BOOLEAN, hasIndex : BOOLEAN] :
        /\ (\E k \in 1..Len(pg.elems) : pg.elems[k].inList) => pg.hasList
        /\ (\E k \in 1..Len(pg.elems) : pg.elems[k].inIndex) => pg.hasIndex }

Sites ==
    {E2ESite, ChainSite, LoopSite, ExactSite}
    \cup {(BaseUrl :> pg) @@ ListingPages : pg \in GeneratedPages}

----------------------------------------------------------------------------
(* The run: main() -> scrape_communities() -> save_to_csv() *)

VARIABLES
    web,                 \* the archived site being crawled
    pc,                  \* position of the run
    communities,         \* self.communities
    index_links,         \* scrape_communities: index_links
    i,                   \* scrape_communities: position in index_links (from 1)
    page_num,            \* scrape_letter_page: page_num
    current_url,         \* scrape_letter_page: current_url
    letter_communities,  \* scrape_letter_page: letter_communities
    csvfile,             \* rows of the output file (<<>> until written)
    clock,               \* time spent in time.sleep so far
    log                  \* what the run has done so far

vars == <<web, pc, communities, index_links, i, page_num, current_url,
          letter_communities, csvfile, clock, log>>

letter_vars == <<page_num, current_url, letter_communities>>

\* an entry of the log; entry is the position of the letter being scraped
\* (0 for the landing page)
Event(ev, entry, url, names, t) ==
    [ev |-> ev, entry |-> entry, url |-> url, names |-> names, t |-> t]

\* get_page(url): the response, or None on any requests.RequestException
\* (a URL the archive does not hold always fails: raise_for_status)
get_page(site, url) ==
    {[ok |-> FALSE, content |-> None]}
    \cup (IF url \in DOMAIN site THEN {[ok |-> TRUE, content |-> site[url]]} ELSE {})

Init ==
    /\ web \in Sites
    /\ pc = "main"
    /\ communities = EmptyBag
    /\ index_links = <<>>
    /\ i = 0
    /\ page_num = 0
    /\ current_url = None
    /\ letter_communities = EmptyBag
    /\ csvfile = <<>>
    /\ clock = 0
    /\ log = <<>>

\* variant: the main page is fetched again after a failure
MainPageFails_Retries ==
    /\ pc = "main"
    /\ \E response \in get_page(web, BaseUrl) :
         /\ ~response.ok
         /\ log' = Append(log, Event("fetch_failed", 0, BaseUrl, EmptyBag, clock))
    /\ pc' = "main"
    /\ UNCHANGED <<web, communities, index_links, i, letter_vars, csvfile, clock>>

\* variant: a failed main page empties self.communities
MainPageFails_Clears ==
    /\ pc = "main"
    /\ \E response \in get_page(web, BaseUrl) :
         /\ ~response.ok
         /\ log' = Append(log, Event("fetch_failed", 0, BaseUrl, EmptyBag, clock))
    /\ communities' = EmptyBag
    /\ pc' = "returned"
    /\ UNCHANGED <<web, index_links, i, letter_vars, csvfile, clock>>

\* scrape_communities: the main page cannot be fetched
MainPageFails ==
    /\ pc = "main"
    /\ \E response \in get_page(web, BaseUrl) :
         /\ ~response.ok
         /\ log' = Append(log, Event("fetch_failed", 0, BaseUrl, EmptyBag, clock))
    /\ pc' = "returned"
    /\ UNCHANGED <<web, communities, index_links, i, letter_vars, csvfile, clock>>

\* variant: the names of the main page are not added to self.communities
MainPageWithoutIndex_NoExtend ==
    /\ pc = "main"
    /\ \E response \in get_page(web, BaseUrl) :
         /\ response.ok
         /\ LET soup == response.content
                main_communities == extract_communities_from_page(soup)
            IN /\ find_index_letter_links(BaseUrl, soup) = <<>>
               /\ index_links' = <<>>
               /\ log' = log \o <<Event("fetch", 0, BaseUrl, EmptyBag, clock),
                                  Event("extract", 0, BaseUrl, main_communities, clock)>>
    /\ pc' = "returned"
    /\ UNCHANGED <<web, communities, i, letter_vars, csvfile, clock>>

\* scrape_communities: the main page has no index letter links
MainPageWithoutIndex ==
    /\ pc = "main"
    /\ \E response \in get_page(web, BaseUrl) :
         /\ response.ok
         /\ LET soup == response.content
                main_communities == extract_communities_from_page(soup)
            IN /\ find_index_letter_links(BaseUrl, soup) = <<>>
               /\ index_links' = <<>>
               /\ communities' = Extend(communities, main_communities)
               /\ log' = log \o <<Event("fetch", 0, BaseUrl, EmptyBag, clock),
                                  Event("extract", 0, BaseUrl, main_communities, clock)>>
    /\ pc' = "returned"
    /\ UNCHANGED <<web, i, letter_vars, csvfile, clock>>

\* scrape_communities: the main page has index letter links
MainPageWithIndex ==
    /\ pc = "main"
    /\ \E response \in get_page(web, BaseUrl) :
         /\ response.ok
         /\ find_index_letter_links(BaseUrl, response.content) # <<>>
         /\ index_links' = find_index_letter_links(BaseUrl, response.content)
         /\ log' = Append(log, Event("fetch", 0, BaseUrl, EmptyBag, clock))
    /\ i' = 1
    /\ pc' = "for"
    /\ UNCHANGED <<web, communities, letter_vars, csvfile, clock>>

\* for i, link in enumerate(index_links): scrape_letter_page(link, letter)
EnterLetter ==
    /\ pc = "for"
    /\ i <= Len(index_links)
    /\ page_num' = 1
    /\ current_url' = index_links[i]
    /\ letter_communities' = EmptyBag
    /\ log' = Append(log, Event("call", i, index_links[i], EmptyBag, clock))
    /\ pc' = IF index_links[i] # None THEN "while" ELSE "merge"
    /\ UNCHANGED <<web, communities, index_links, i, csvfile, clock>>

\* variant: a failed fetch discards what the letter has collected
LetterFetchFails_DropsNames ==
    /\ pc = "while"
    /\ \E response \in get_page(web, current_url) :
         /\ ~response.ok
         /\ log' = Append(log, Event("fetch_failed", i, current_url, EmptyBag, clock))
    /\ letter_communities' = EmptyBag
    /\ pc' = "merge"
    /\ UNCHANGED <<web, communities, index_links, i, page_num, current_url, csvfile, clock>>

\* variant: a failed fetch ends the whole run
LetterFetchFails_EndsRun ==
    /\ pc = "while"
    /\ \E response \in get_page(web, current_url) :
         /\ ~response.ok
         /\ log' = Append(log, Event("fetch_failed", i, current_url, EmptyBag, clock))
    /\ pc' = "returned"
    /\ UNCHANGED <<web, communities, index_links, i, letter_vars, csvfile, clock>>

\* variant: a failed fetch is tried again
LetterFetchFails_Retries ==
    /\ pc = "while"
    /\ \E response \in get_page(web, current_url) :
         /\ ~response.ok
         /\ log' = Append(log, Event("fetch_failed", i, current_url, EmptyBag, clock))
    /\ pc' = "while"
    /\ UNCHANGED <<web, communities, index_links, i, letter_vars, csvfile, clock>>

\* scrape_letter_page: if not response: break
LetterFetchFails ==
    /\ pc = "while"
    /\ \E response \in get_page(web, current_url) :
         /\ ~response.ok
         /\ log' = Append(log, Event("fetch_failed", i, current_url, EmptyBag, clock))
    /\ pc' = "merge"
    /\ UNCHANGED <<web, communities, index_links, i, letter_vars, csvfile, clock>>

\* variant: the names of a page go straight into self.communities
LetterFetchOk_WritesGlobal ==
    /\ pc = "while"
    /\ \E response \in get_page(web, current_url) :
         /\ response.ok
         /\ LET soup == response.content
                page_communities == extract_communities_from_page(soup)
            IN /\ letter_communities' = Extend(letter_communities, page_communities)
               /\ communities' = Extend(communities, page_communities)
               /\ current_url' = NextUrl(BaseUrl, soup)
               /\ log' = log \o <<Event("fetch", i, current_url, EmptyBag, clock),
                                  Event("extract", i, current_url, page_communities, clock)>>
    /\ page_num' = page_num + 1
    /\ pc' = "sleep"
    /\ UNCHANGED <<web, index_links, i, csvfile, clock>>

\* scrape_letter_page: a page is fetched, its names are collected and its
\* next link is looked up
LetterFetchOk ==
    /\ pc = "while"
    /\ \E response \in get_page(web, current_url) :
         /\ response.ok
         /\ LET soup == response.content
                page_communities == extract_communities_from_page(soup)
            IN /\ letter_communities' = Extend(letter_communities, page_communities)
               /\ current_url' = NextUrl(BaseUrl, soup)
               /\ log' = log \o <<Event("fetch", i, current_url, EmptyBag, clock),
                                  Event("extract", i, current_url, page_communities, clock)>>
    /\ page_num' = page_num + 1
    /\ pc' = "sleep"
    /\ UNCHANGED <<web, communities, index_links, i, csvfile, clock>>

\* variant: the limit test lets one more page through
PageLimitReached_OneMore(n) == n > PageLimit + 1

\* variant: the limit test is missing
PageLimitReached_Never(n) == FALSE

\* variant: the limit test uses >=
PageLimitReached_Early(n) == n >= PageLimit

\* if page_num > 50
PageLimitReached(n) == n > PageLimit

\* scrape_letter_page: time.sleep(1), the page limit (with its message
\* "Reached page limit for letter ...") and the loop test
PageSleep ==
    /\ pc = "sleep"
    /\ clock' = clock + PageDelay
    /\ pc' = IF PageLimitReached(page_num) THEN "merge"
             ELSE IF current_url # None THEN "while"
             ELSE "merge"
    /\ log' = IF PageLimitReached(page_num)
              THEN Append(log, Event("page_limit", i, current_url, EmptyBag, clock'))
              ELSE log
    /\ UNCHANGED <<web, communities, index_links, i, letter_vars, csvfile>>

\* variant: the names of a letter replace self.communities
MergeLetter_Overwrites ==
    /\ pc = "merge"
    /\ communities' = letter_communities
    /\ log' = Append(log, Event("return", i, index_links[i], letter_communities, clock))
    /\ pc' = "pause"
    /\ UNCHANGED <<web, index_links, i, letter_vars, csvfile, clock>>

\* scrape_letter_page returns; self.communities.extend(letter_communities)
MergeLetter ==
    /\ pc = "merge"
    /\ communities' = Extend(communities, letter_communities)
    /\ log' = Append(log, Event("return", i, index_links[i], letter_communities, clock))
    /\ pc' = "pause"
    /\ UNCHANGED <<web, index_links, i, letter_vars, csvfile, clock>>

\* variant: no delay between letters
LetterSleepNext_NoSleep ==
    /\ pc = "pause"
    /\ i < Len(index_links)
    /\ i' = i + 1
    /\ pc' = "for"
    /\ UNCHANGED <<web, communities, index_links, letter_vars, csvfile, log, clock>>

\* time.sleep(2), then the next letter
LetterSleepNext ==
    /\ pc = "pause"
    /\ i < Len(index_links)
    /\ clock' = clock + LetterDelay
    /\ i' = i + 1
    /\ pc' = "for"
    /\ UNCHANGED <<web, communities, index_links, letter_vars, csvfile, log>>

\* time.sleep(2) after the last letter, then duplicates and short names go
LetterSleepLast ==
    /\ pc = "pause"
    /\ i = Len(index_links)
    /\ clock' = clock + LetterDelay
    /\ communities' = DedupAndClean(communities)
    /\ pc' = "returned"
    /\ UNCHANGED <<web, index_links, i, letter_vars, csvfile, log>>

\* main: scraper.save_to_csv()
SaveToCsv ==
    /\ pc = "returned"
    /\ csvfile' = CsvRows(communities)
    /\ pc' = "saved"
    /\ UNCHANGED <<web, communities, index_links, i, letter_vars, clock, log>>

Next ==
    \/ MainPageFails
    \/ MainPageWithoutIndex
    \/ MainPageWithIndex
    \/ EnterLetter
    \/ LetterFetchFails
    \/ LetterFetchOk
    \/ PageSleep
    \/ MergeLetter
    \/ LetterSleepNext
    \/ LetterSleepLast
    \/ SaveToCsv

Spec == Init /\ [][Next]_vars

\* The run is one sequential thread: whenever a step is possible it is
\* eventually taken (every fetch ends, by a response or by the 10 s timeout)
FairSpec == Spec /\ WF_vars(Next)

----------------------------------------------------------------------------
(* One scraper object used for several scrape_communities calls *)

\* the calls of scrape_communities made so far
Calls == 1 + Len(SelectSeq(log, LAMBDA e : e.ev = "again"))

\* scrape_communities is called again on the same object: self.communities
\* is kept (it is only set in __init__), the locals are new; the log notes
\* self.communities as it is at the call
ScrapeAgain ==
    /\ pc = "returned"
    /\ Calls < MaxCalls
    /\ pc' = "main"
    /\ index_links' = <<>>
    /\ i' = 0
    /\ page_num' = 0
    /\ current_url' = None
    /\ letter_communities' = EmptyBag
    /\ log' = Append(log, Event("again", 0, BaseUrl, communities, clock))
    /\ UNCHANGED <<web, communities, csvfile, clock>>

\* the sites crawled repeatedly: the end-to-end example and the landing
\* pages of at most one element
ReuseSites ==
    {E2ESite}
    \cup {(BaseUrl :> pg) @@ ListingPages :
             pg \in {g \in GeneratedPages : Len(g.elems) <= 1}}

ReuseInit == Init /\ web \in ReuseSites

ReuseNext == Next \/ ScrapeAgain

ReuseSpec == ReuseInit /\ [][ReuseNext]_vars

----------------------------------------------------------------------------
(* Reading the log *)

IsAttempt(e) == e.ev \in {"fetch", "fetch_failed"}

\* every fetch issued so far, in order
Attempts == SelectSeq(log, IsAttempt)

\* the fetches issued by the traversal of letter number n
AttemptsOf(n) == SelectSeq(log, LAMBDA e : IsAttempt(e) /\ e.entry = n)

\* the calls of scrape_letter_page and their returns, in order
CallsAndReturns == SelectSeq(log, LAMBDA e : e.ev \in {"call", "return"})

Returns == SelectSeq(log, LAMBDA e : e.ev = "return")

Extractions == SelectSeq(log, LAMBDA e : e.ev = "extract")

AllOk(attempts) == \A k \in 1..Len(attempts) : attempts[k].ev = "fetch"

RunEnded == pc \in {"returned", "saved"}

MainPageFetched == log # <<>> /\ log[1].ev = "fetch"

MainPageFailed == log # <<>> /\ log[1].ev = "fetch_failed" /\ log[1].entry = 0

\* the data rows of the output file
DataRows == Tail(csvfile)

RECURSIVE SumNames(_)
\* all names of a sequence of bags of names
SumNames(bags) ==
    IF bags = <<>> THEN {} ELSE BagToSet(Head(bags)) \cup SumNames(Tail(bags))

\* the names on the pages that the given fetches brought back
NamesOnPages(attempts) ==
    SumNames([k \in 1..Len(attempts) |->
                 IF attempts[k].ev = "fetch"
                 THEN extract_communities_from_page(web[attempts[k].url])
                 ELSE EmptyBag])

----------------------------------------------------------------------------
(* Claims *)

\* C1: scrape_letter_page never fetches more than 50 pages for one entry
\* point, and a traversal whose every fetch succeeded on a page with a next
\* link ends after exactly 50 pages fetched and extracted.
C1_PageLimit ==
    \A r \in 1..Len(index_links) :
        LET attempts == AttemptsOf(r)
            extracted == SelectSeq(Extractions, LAMBDA e : e.entry = r)
            ended == \E k \in 1..Len(Returns) : Returns[k].entry = r
            allLinked == \A k \in 1..Len(attempts) :
                            /\ attempts[k].ev = "fetch"
                            /\ NextUrl(BaseUrl, web[attempts[k].url]) # None
        IN /\ Len(attempts) <= 50
           /\ (ended /\ allLinked) => (Len(attempts) = 50 /\ Len(extracted) = 50)

C1_Witness ==
    /\ pc = "saved"
    /\ web = ChainSite
    /\ AllOk(AttemptsOf(1))
    /\ Len(AttemptsOf(1)) = 50
    /\ AttemptsOf(1)[50].url = urljoin(BaseUrl, ChainHref(50))

\* C2: when the fetch of page k of a chain fails, scrape_letter_page returns
\* exactly the names extracted from pages 1..k-1 (none when k = 1).
C2_PartialFailure ==
    \A k \in 1..Len(Returns) :
        LET attempts == AttemptsOf(Returns[k].entry)
        IN ~AllOk(attempts) =>
              /\ BagToSet(Returns[k].names) = NamesOnPages(attempts)
              /\ (Len(attempts) = 1 => Returns[k].names = EmptyBag)

C2_Witness ==
    /\ web = E2ESite
    /\ Len(Returns) >= 1
    /\ Len(AttemptsOf(1)) = 2
    /\ AttemptsOf(1)[2].ev = "fetch_failed"
    /\ BagToSet(Returns[1].names) = {AlphaClub, AntsUnited}

\* C3: the rows written after the header contain no two identical strings
\* and every row has trimmed length >= 3.
C3_OutputRows ==
    pc = "saved" =>
        /\ \A a, b \in 1..Len(DataRows) : a # b => DataRows[a] # DataRows[b]
        /\ \A a \in 1..Len(DataRows) : Len(Strip(DataRows[a])) >= 3

C3_Witness ==
    /\ pc = "saved"
    /\ web = LoopSite
    /\ Len(AttemptsOf(1)) = 50
    /\ Len(DataRows) = 3

\* C4: when the landing page is fetched and yields no entry points, the
\* result equals extract_communities_from_page(landing page), no letter is
\* traversed and the landing-page fetch is the only fetch.
C4_Fallback ==
    (RunEnded /\ MainPageFetched /\ find_index_letter_links(BaseUrl, web[BaseUrl]) = <<>>) =>
        /\ communities = extract_communities_from_page(web[BaseUrl])
        /\ CallsAndReturns = <<>>
        /\ Len(Attempts) = 1

C4_Witness ==
    /\ RunEnded
    /\ MainPageFetched
    /\ index_links = <<>>
    /\ web[BaseUrl].hasIndex
    /\ BagToSet(communities) = {Gamma}

\* C5: when the landing-page fetch fails the run ends with an empty result:
\* no letter is traversed, no further fetch is issued, and the output file
\* holds the header and no data row.
C5_LandingFailure ==
    MainPageFailed =>
        /\ RunEnded
        /\ communities = EmptyBag
        /\ Len(log) = 1
        /\ (pc = "saved" => csvfile = <<Header>>)

C5_Witness == MainPageFailed /\ pc = "saved" /\ web = E2ESite

\* C6: on the end-to-end example site the output rows are Alpha Club,
\* Ants United, Archive Fans, Beta Group, in that order.
C6_EndToEnd ==
    (web = E2ESite /\ pc = "saved" /\ AllOk(Attempts)) =>
        csvfile = <<Header, AlphaClub, AntsUnited, ArchiveFans, BetaGroup>>

C6_Witness ==
    /\ web = E2ESite
    /\ pc = "saved"
    /\ AllOk(Attempts)
    /\ Len(Attempts) = 4

\* the first non-empty list of a sequence of lists (the last one if none)
FirstNonEmpty(lists) ==
    IF \E k \in 1..Len(lists) : lists[k] # <<>>
    THEN lists[CHOOSE k \in 1..Len(lists) :
                  lists[k] # <<>> /\ \A j \in 1..(k - 1) : lists[j] = <<>>]
    ELSE <<>>

\* C7: extract_communities_from_page returns the result of exactly one
\* strategy, the first of primary / container / heuristic whose result is
\* non-empty; a page matching strategy 1 yields strategy 1's names only.
C7_OneStrategy ==
    \A k \in 1..Len(Extractions) :
        LET p == web[Extractions[k].url]
            found == BagToSet(Extractions[k].names)
        IN /\ found = Range(FirstNonEmpty(<<PrimaryNames(p), ContainerNames(p),
                                           HeuristicNames(p)>>))
           /\ PrimaryNames(p) # <<>> => found = Range(PrimaryNames(p))
           /\ \A n \in found : Extractions[k].names[n] = 1

C7_Witness ==
    \E k \in 1..Len(Extractions) :
        LET p == web[Extractions[k].url]
        IN /\ PrimaryNames(p) # <<>>
           /\ ContainerNames(p) # <<>>
           /\ Range(ContainerNames(p)) \cap Range(PrimaryNames(p)) = {}
           /\ BagToSet(Extractions[k].names) = {AlphaClub}

\* C8: scrape_letter_page is invoked exactly once per entry point, in
\* document order, each traversal starting after the previous one has ended;
\* a failed fetch or a page-limit stop in one chain does not keep the later
\* entry points from being traversed and merged.
C8_LetterOrder ==
    /\ \A k \in 1..Len(CallsAndReturns) :
          /\ CallsAndReturns[k].ev = (IF k % 2 = 1 THEN "call" ELSE "return")
          /\ CallsAndReturns[k].entry = (k + 1) \div 2
          /\ CallsAndReturns[k].url = index_links[(k + 1) \div 2]
    /\ (RunEnded /\ MainPageFetched) =>
          /\ Len(CallsAndReturns) = 2 * Len(find_index_letter_links(BaseUrl, web[BaseUrl]))
          /\ \A k \in 1..Len(Returns) :
                \A n \in BagToSet(Returns[k].names) : BagIn(n, communities)

C8_Witness ==
    /\ pc = "saved"
    /\ web = ChainSite
    /\ Len(AttemptsOf(1)) = 50
    /\ Len(Returns) = 2
    /\ BagIn(BetaGroup, communities)

\* C9: no fetch is retried: after a failed fetch the traversal of that
\* entry point issues no further fetch.
C9_NoRetry ==
    \A r \in 0..Len(index_links) :
        LET attempts == AttemptsOf(r)
        IN \A k \in 1..(Len(attempts) - 1) : attempts[k].ev = "fetch"

C9_Witness ==
    /\ pc = "saved"
    /\ web = LoopSite
    /\ Len(AttemptsOf(1)) = 3
    /\ AttemptsOf(1)[3].ev = "fetch_failed"
    /\ AttemptsOf(1)[3].url = AttemptsOf(1)[2].url

\* C10: at least one time unit of delay lies between two consecutive page
\* fetches of one entry point, and at least two between the last fetch of
\* an entry point and the first fetch of the next.
C10_RateLimit ==
    \A k \in 1..(Len(Attempts) - 1) :
        LET a == Attempts[k]
            b == Attempts[k + 1]
        IN /\ (a.entry >= 1 /\ b.entry = a.entry) => b.t - a.t >= 1
           /\ (a.entry >= 1 /\ b.entry # a.entry) => b.t - a.t >= 2

C10_Witness ==
    /\ web = E2ESite
    /\ Len(Attempts) = 3
    /\ Attempts[2].entry = 1
    /\ Attempts[2].ev = "fetch_failed"
    /\ Attempts[3].entry = 2
    /\ Attempts[3].t - Attempts[2].t = 2

\* C11: every name in self.communities was returned by
\* extract_communities_from_page on a page whose fetch succeeded in this run.
C11_NamesFromFetchedPages ==
    BagToSet(communities) \subseteq NamesOnPages(Attempts)

C11_Witness ==
    /\ pc = "saved"
    /\ web = E2ESite
    /\ Len(AttemptsOf(1)) = 2
    /\ AttemptsOf(1)[2].ev = "fetch_failed"
    /\ Len(AttemptsOf(2)) = 1
    /\ BagToSet(communities) = {AlphaClub, AntsUnited, BetaGroup}

\* the names in self.communities
ResultSet == BagToSet(communities)

\* scrape_letter_page is being called, is running or is about to return
LetterRunning == pc \in {"for", "while", "sleep"}

\* the step that takes the landing-page fallback
FallbackStep == pc = "main" /\ pc' = "returned" /\ log'[1].ev = "fetch"

\* C12 as stated: the result set is changed only by the merge step that
\* follows the completion of a Letter Traverser; it is unchanged while
\* scrape_letter_page runs and no other step adds names to it.
C12_Original ==
    [][ /\ LetterRunning => communities' = communities
        /\ ResultSet' # ResultSet => pc = "merge" ]_vars

\* C12 (amended): the result set is changed only by the merge step that
\* follows the completion of a Letter Traverser or by the landing-page
\* fallback, which adds the names of the landing page when it yields no
\* entry point; it is unchanged while scrape_letter_page runs.
C12_MergeOrFallbackOnly ==
    [][ /\ LetterRunning => communities' = communities
        /\ ResultSet' # ResultSet => (pc = "merge" \/ FallbackStep) ]_vars

C12_Witness ==
    /\ pc = "sleep"
    /\ web = E2ESite
    /\ i = 2
    /\ BagToSet(letter_communities) = {BetaGroup}
    /\ ResultSet = {AlphaClub, AntsUnited, ArchiveFans}

\* C13: every run terminates, whatever the next-link structure (self-link,
\* cycle) and whatever fetches fail: each Letter Traverser ends, the run
\* reaches its end, and at most 1 + 50*N fetches are issued for N entry
\* points.
C13_Terminates ==
    /\ <>(pc = "saved")
    /\ (pc \in {"while", "sleep"}) ~> (pc = "merge")
    /\ [](Len(Attempts) <= 1 + 50 * Len(index_links))

C13_Witness ==
    /\ pc = "saved"
    /\ web = LoopSite
    /\ Len(AttemptsOf(1)) = 50
    /\ \A k \in 1..50 : AttemptsOf(1)[k].url = urljoin(BaseUrl, HrefLZ)
    /\ Len(Attempts) = 52

\* the number, counted from 1, of the page the Letter Traverser has fetched
\* last
PageCounter == Len(AttemptsOf(i))

\* C14 as stated: after a fetched page with a next link the traverser goes
\* on to the next page whenever the page counter is <= 50 and stops for the
\* safety bound only when it exceeds 50.
C14_Original ==
    [][ (pc = "sleep" /\ current_url # None) =>
            /\ PageCounter <= 50 => pc' = "while"
            /\ pc' = "merge" => PageCounter > 50 ]_vars

\* C14 (amended): after a fetched page with a next link the traverser goes
\* on to the next page whenever the page counter is < 50 and stops for the
\* safety bound when it has reached 50 (page_num, incremented before the
\* test, is then 51).
C14_TransitionGuard ==
    [][ (pc = "sleep" /\ current_url # None) =>
            /\ page_num = PageCounter + 1
            /\ PageCounter < 50 => pc' = "while"
            /\ pc' = "merge" => PageCounter >= 50 ]_vars

C14_Witness ==
    /\ pc = "merge"
    /\ web = ChainSite
    /\ i = 1
    /\ AllOk(AttemptsOf(1))
    /\ PageCounter = 50
    /\ current_url = urljoin(BaseUrl, ChainHref(51))

\* C15: the page-limit event is reported only when a chain is cut short,
\* that is when the traversal stops while a next-page link is present; a
\* traversal whose last page has no next link reports no page-limit event.
C15_LimitOnlyWhenCutShort ==
    \A k \in 1..Len(log) : log[k].ev = "page_limit" => log[k].url # None

\* the fetches issued by the Letter Traversers
LetterAttempts == SelectSeq(log, LAMBDA e : IsAttempt(e) /\ e.entry >= 1)

\* C16: on the index path, when scrape_communities returns, the result set
\* is the union of extract_communities_from_page over every listing page
\* fetched successfully for any entry point; names that only the landing
\* page holds are not in it.
C16_MergeComplete ==
    (RunEnded /\ MainPageFetched /\ index_links # <<>>) =>
        /\ ResultSet = NamesOnPages(LetterAttempts)
        /\ \A n \in ResultSet : communities[n] = 1

C16_Witness ==
    /\ RunEnded
    /\ MainPageFetched
    /\ BagIn(Delta, extract_communities_from_page(web[BaseUrl]))
    /\ Len(LetterAttempts) = 2
    /\ ResultSet = {AlphaClub, AntsUnited, ArchiveFans}

\* the anchors inside the index-letters container of page p
ContainerAnchors(p) == SelectSeq(p.elems, LAMBDA e : e.tag = "a" /\ e.inIndex)

\* those of them that carry the class indexLetters and a non-empty href
LetterAnchors(p) ==
    SelectSeq(ContainerAnchors(p),
              LAMBDA e : "indexLetters" \in e.class /\ e.href \notin {<<>>, <<<<>>>>})

\* the landing-page fallback was taken
FallbackTaken == \E k \in 1..Len(Extractions) : Extractions[k].entry = 0

\* C17 as stated: one entry point for every anchor inside the index-letters
\* container, none exactly when the container is absent, so the fallback is
\* taken only when the container is absent.
C17_Original ==
    MainPageFetched =>
        /\ Len(index_links) = Len(ContainerAnchors(web[BaseUrl]))
        /\ index_links = <<>> <=> ~web[BaseUrl].hasIndex
        /\ FallbackTaken => ~web[BaseUrl].hasIndex

\* C17 (amended): one entry point, in document order, for every anchor
\* inside the index-letters container that carries the class indexLetters
\* and a non-empty href; none exactly when the container is absent or holds
\* no such anchor, and exactly then the fallback is taken.
C17_IndexLinks ==
    MainPageFetched =>
        LET anchors == LetterAnchors(web[BaseUrl])
        IN /\ index_links = [k \in 1..Len(anchors) |->
                                urljoin(BaseUrl, anchors[k].href[1])]
           /\ index_links = <<>> <=> (~web[BaseUrl].hasIndex \/ anchors = <<>>)
           /\ FallbackTaken <=> index_links = <<>>

C17_Witness ==
    /\ MainPageFetched
    /\ web[BaseUrl].hasIndex
    /\ Len(ContainerAnchors(web[BaseUrl])) = 2
    /\ FallbackTaken
    /\ index_links = <<>>

\* C18: a scrape_communities call whose landing-page fetch fails leaves
\* self.communities exactly as it was before the call, so the names of an
\* earlier call on the same object are still in the result.
C18_FailedCallKeepsResult ==
    \A k \in 1..(Len(log) - 1) :
        (/\ log[k].ev = "again"
         /\ log[k + 1].ev = "fetch_failed"
         /\ log[k + 1].entry = 0
         /\ k + 1 = Len(log)) =>
            /\ RunEnded
            /\ communities = log[k].names

C18_Witness ==
    /\ pc = "saved"
    /\ web = E2ESite
    /\ Len(log) >= 2
    /\ log[Len(log) - 1].ev = "again"
    /\ log[Len(log)].ev = "fetch_failed"
    /\ ResultSet = {AlphaClub, AntsUnited, ArchiveFans, BetaGroup}

\* C19: after any sequence of scrape_communities calls on one scraper
\* object, self.communities holds no two identical strings and no string of
\* trimmed length <= 2.
C19_NoDuplicatesAfterCalls ==
    RunEnded =>
        \A n \in DOMAIN communities :
            communities[n] = 1 /\ Len(Strip(n)) > 2

=============================================================================
